---- MODULE Spec2Model ----
(***************************************************************************)
(* Deliberation and quorum-weighted decision engine of agent-company:      *)
(* the agent registry (agents/agent_manager.py, agents/base_agent.py),     *)
(* the weighted vote tally and the meeting run (core/orchestrator.py).     *)
(***************************************************************************)
EXTENDS Integers, Sequences, FiniteSets, TLC

(***************************************************************************)
(* Python floats.  VOTING_WEIGHTS holds float literals and the tally adds, *)
(* divides and multiplies them, so the arithmetic is IEEE-754 binary64     *)
(* with round-to-nearest-even.  A float is [m, e] standing for m * 2^e,    *)
(* with m = 0 or 2^52 <= m < 2^53.  A mantissa is a natural number below   *)
(* 2^60 written as three limbs <<l0, l1, l2>> = l0 + l1*2^20 + l2*2^40.    *)
(***************************************************************************)
LimbBase == 1048576

BigOf(bn) == <<bn % LimbBase, (bn \div LimbBase) % LimbBase, 0>>

BigZero == <<0, 0, 0>>

BigNorm(n0, n1, n2) ==
    LET c0 == n0 \div LimbBase
        b1 == n1 + c0
        c1 == b1 \div LimbBase
    IN  <<n0 % LimbBase, b1 % LimbBase, n2 + c1>>

BigAdd(ax, ay) == BigNorm(ax[1] + ay[1], ax[2] + ay[2], ax[3] + ay[3])

BigGeq(gx, gy) ==
    IF gx[3] # gy[3] THEN gx[3] > gy[3]
    ELSE IF gx[2] # gy[2] THEN gx[2] > gy[2]
    ELSE gx[1] >= gy[1]

\* sx - sy for sx >= sy
BigSub(sx, sy) ==
    LET d0 == sx[1] - sy[1]
        w0 == IF d0 < 0 THEN 1 ELSE 0
        d1 == sx[2] - sy[2] - w0
        w1 == IF d1 < 0 THEN 1 ELSE 0
    IN  <<d0 + w0 * LimbBase, d1 + w1 * LimbBase, sx[3] - sy[3] - w1>>

BigMulSmall(mx, mk) == BigNorm(mx[1] * mk, mx[2] * mk, mx[3] * mk)

Pow2Table == <<1, 2, 4, 8, 16, 32, 64, 128, 256, 512, 1024, 2048, 4096>>

\* 2^pk for 0 <= pk <= 12
Pow2(pk) == Pow2Table[pk + 1]

\* lx * 2^lk for 0 <= lk <= 10
BigShl(lx, lk) == BigMulSmall(lx, Pow2(lk))

\* floor(rx / 2^rk) for 0 <= rk <= 12
BigShr(rx, rk) ==
    LET p2 == Pow2(rk)
        q2 == LimbBase \div p2
    IN  <<(rx[1] \div p2) + (rx[2] % p2) * q2,
          (rx[2] \div p2) + (rx[3] % p2) * q2,
          rx[3] \div p2>>

\* wx mod 2^wk for 0 <= wk <= 12
BigLow(wx, wk) == wx[1] % Pow2(wk)

MantBits == 53

TwoTo52 == <<0, 0, 4096>>

TwoTo53 == <<0, 0, 8192>>

\* the number of bits of xm (2^52 <= xm < 2^60) beyond MantBits
ExtraBits(xm) ==
    IF xm[3] < 8192 THEN 0
    ELSE IF xm[3] < 16384 THEN 1
    ELSE IF xm[3] < 32768 THEN 2
    ELSE IF xm[3] < 65536 THEN 3
    ELSE IF xm[3] < 131072 THEN 4
    ELSE IF xm[3] < 262144 THEN 5
    ELSE IF xm[3] < 524288 THEN 6
    ELSE 7

FZero == [m |-> BigZero, e |-> 0]

\* the element of a one-element set; {F(x) : x \in {exp}} computes exp once
\* however often F uses x
The(S) == CHOOSE x \in S : TRUE

\* Round tm * 2^te (2^52 <= tm < 2^60; sticky: nonzero bits were dropped
\* below tm) to the nearest float, ties to even; k is ExtraBits(tm).
RoundBits(tm, k, te, sticky) ==
    LET q    == BigShr(tm, k)
        r    == BigLow(tm, k)
        half == IF k = 0 THEN 0 ELSE Pow2(k - 1)
        odd  == q[1] % 2 = 1
        up   == IF k = 0 THEN FALSE
                ELSE r > half \/ (r = half /\ (sticky \/ odd))
    IN  IF up /\ BigAdd(q, BigOf(1)) = TwoTo53
        THEN [m |-> TwoTo52, e |-> te + k + 1]
        ELSE [m |-> IF up THEN BigAdd(q, BigOf(1)) ELSE q, e |-> te + k]

RoundValue(tm, te, sticky) ==
    The({RoundBits(tm, k, te, sticky) : k \in {ExtraBits(tm)}})

RoundToFloat(tm, te, sticky) ==
    The({RoundValue(v, te, sticky) : v \in {tm}})

\* the position of the leading bit of ln, 1 <= ln < 8192
LeadingBit(ln) ==
    IF ln < 2 THEN 0 ELSE IF ln < 4 THEN 1 ELSE IF ln < 8 THEN 2
    ELSE IF ln < 16 THEN 3 ELSE IF ln < 32 THEN 4 ELSE IF ln < 64 THEN 5
    ELSE IF ln < 128 THEN 6 ELSE IF ln < 256 THEN 7 ELSE IF ln < 512 THEN 8
    ELSE IF ln < 1024 THEN 9 ELSE IF ln < 2048 THEN 10
    ELSE IF ln < 4096 THEN 11 ELSE 12

\* float(fn) for an integer 0 <= fn < 8192
FFromInt(fn) ==
    IF fn = 0 THEN FZero
    ELSE [m |-> <<0, 0, fn * Pow2(12 - LeadingBit(fn))>>,
          e |-> LeadingBit(fn) - 52]

\* fx + fy (exponents at most 6 apart)
FAdd(fx, fy) ==
    IF fx.m = BigZero THEN fy
    ELSE IF fy.m = BigZero THEN fx
    ELSE LET emin == IF fx.e < fy.e THEN fx.e ELSE fy.e
             amx  == BigShl(fx.m, fx.e - emin)
             amy  == BigShl(fy.m, fy.e - emin)
         IN  RoundToFloat(BigAdd(amx, amy), emin, FALSE)

DigitBits == 7

\* the bits of hx from bit 29 up (hx < 2^60)
BigTop(hx) == hx[3] * 2048 + (hx[2] \div 512)

\* One digit of long division in base 2^DigitBits.  dst = <<remainder,
\* quotient>>, remainder < dd, 2^52 <= dd < 2^53.  The digit is estimated
\* from the leading bits and corrected by one where the estimate is off.
DivStep(dst, dd) ==
    LET nn   == BigShl(dst[1], DigitBits)
        qhat == BigTop(nn) \div BigTop(dd)
        qd   == BigMulSmall(dd, qhat)
        over == ~BigGeq(nn, qd)
        dig  == IF over THEN qhat - 1
                ELSE IF BigGeq(BigSub(nn, qd), dd) THEN qhat + 1 ELSE qhat
        rem  == BigSub(nn, BigMulSmall(dd, dig))
    IN  <<rem, BigAdd(BigShl(dst[2], DigitBits), BigOf(dig))>>

\* bn digits of the division
RECURSIVE DivDigits(_, _, _)
DivDigits(bst, bd, bn) ==
    IF bn = 0 THEN bst
    ELSE The({DivDigits(nx, bd, bn - 1) : nx \in {DivStep(bst, bd)}})

QuotientDigits == 8

\* fa / fb for fb > 0: QuotientDigits * DigitBits quotient bits after the
\* binary point of ma / mb, the rest of the division kept as the sticky bit
FDiv(fa, fb) ==
    IF fa.m = BigZero THEN FZero
    ELSE LET st == IF BigGeq(fa.m, fb.m)
                   THEN <<BigSub(fa.m, fb.m), BigOf(1)>>
                   ELSE <<fa.m, BigZero>>
         IN  The({RoundToFloat(rq[2],
                               fa.e - fb.e - QuotientDigits * DigitBits,
                               rq[1] # BigZero) :
                    rq \in {DivDigits(st, fb.m, QuotientDigits)}})

\* fm * ik for an integer 1 <= ik < 128
FMulInt(fm, ik) ==
    IF fm.m = BigZero THEN FZero
    ELSE RoundToFloat(BigMulSmall(fm.m, ik), fm.e, FALSE)

\* fg > fh for non-negative floats
FGt(fg, fh) ==
    IF fg.m = BigZero THEN FALSE
    ELSE IF fh.m = BigZero THEN TRUE
    ELSE IF fg.e # fh.e THEN fg.e > fh.e
    ELSE fg.m # fh.m /\ BigGeq(fg.m, fh.m)

\* fg >= fh for non-negative floats
FGeq(fg, fh) ==
    IF fh.m = BigZero THEN TRUE
    ELSE IF fg.m = BigZero THEN FALSE
    ELSE IF fg.e # fh.e THEN fg.e > fh.e
    ELSE BigGeq(fg.m, fh.m)

\* the float written as the decimal literal lt/10 (1.5, 1.3, ...)
FLiteralTenths(lt) == FDiv(FFromInt(lt), FFromInt(10))

(***************************************************************************)
(* core/config.py: the roster and the voting weights.                      *)
(***************************************************************************)
AGENT_ROLES ==
    <<"ceo", "pm", "cto", "developer", "qa", "marketing", "finance",
      "critic", "chair", "memory">>

Roles == {AGENT_ROLES[i] : i \in 1..Len(AGENT_ROLES)}

\* the weights as written in VOTING_WEIGHTS, in tenths
WeightTenths ==
    [ceo |-> 15, pm |-> 13, cto |-> 13, developer |-> 12, qa |-> 11,
     marketing |-> 10, finance |-> 12, critic |-> 11, chair |-> 10,
     memory |-> 0]

\* the floats VOTING_WEIGHTS holds
VOTING_WEIGHTS ==
    [ceo |-> FLiteralTenths(15), pm |-> FLiteralTenths(13),
     cto |-> FLiteralTenths(13), developer |-> FLiteralTenths(12),
     qa |-> FLiteralTenths(11), marketing |-> FLiteralTenths(10),
     finance |-> FLiteralTenths(12), critic |-> FLiteralTenths(11),
     chair |-> FLiteralTenths(10), memory |-> FLiteralTenths(0)]

DefaultMinVoting == 7

(***************************************************************************)
(* Vote choices (the strings SimpleAgent.vote_on_proposal returns).        *)
(***************************************************************************)
Approve == "approve"
ApproveWithConditions == "approve_with_conditions"
Neutral == "neutral"
Reject == "reject"
NeedsInfo == "needs_info"

PositiveChoices == {Approve, ApproveWithConditions}

NegativeChoices == {Neutral, Reject, NeedsInfo}

ValidChoices == PositiveChoices \cup NegativeChoices

(***************************************************************************)
(* A vote map is a Python dict: a sequence of [agent, vote] entries with   *)
(* distinct agents, in insertion order.                                    *)
(***************************************************************************)
Keys(vm) == {vm[i].agent : i \in 1..Len(vm)}

Values(vm) == {vm[i].vote : i \in 1..Len(vm)}

\* calculate_voting_result: one pass of the loop over votes.items(), on
\* sums = <<total_weight, positive_weight>>
AddWeight(entry, sums) ==
    LET weight == VOTING_WEIGHTS[entry.agent]
    IN  <<FAdd(sums[1], weight),
          IF entry.vote \in PositiveChoices THEN FAdd(sums[2], weight)
          ELSE sums[2]>>

\* calculate_voting_result: the loop over votes.items()
RECURSIVE SumWeights(_, _, _)
SumWeights(vm, i, sums) ==
    IF i > Len(vm) THEN sums
    ELSE The({SumWeights(vm, i + 1, nx) : nx \in {AddWeight(vm[i], sums)}})

VoteCounts(vm) ==
    [c \in Values(vm) |-> Cardinality({i \in 1..Len(vm) : vm[i].vote = c})]

EmptyBreakdown == [c \in {} |-> 0]

\* the number of keys of vm with VOTING_WEIGHTS[agent_id] > 0
VotingAgentsCount(vm) ==
    Cardinality({a \in Keys(vm) : FGt(VOTING_WEIGHTS[a], FZero)})

\* calculate_voting_result: the dict returned when the quorum is not met
QuorumFailure(vm, MIN_VOTING_PARTICIPANTS, voting_agents_count) ==
    [outcome |-> "failed_quorum",
     total_votes |-> Len(vm),
     voting_agents_count |-> voting_agents_count,
     required_quorum |-> MIN_VOTING_PARTICIPANTS,
     vote_breakdown |-> EmptyBreakdown,
     approval_percentage |-> FZero,
     total_weight |-> FZero,
     positive_weight |-> FZero]

\* calculate_voting_result: approval_percentage
ApprovalPercentage(positive_weight, total_weight) ==
    IF FGt(total_weight, FZero)
    THEN The({FMulInt(ratio, 100) :
                ratio \in {FDiv(positive_weight, total_weight)}})
    ELSE FZero

\* calculate_voting_result: the dict returned after the weight math
OutcomeRecord(vm, quorum, voting_agents_count, sums, approval_percentage) ==
    [outcome |-> IF FGeq(approval_percentage, FFromInt(60))
                 THEN "approved" ELSE "rejected",
     total_votes |-> Len(vm),
     voting_agents_count |-> voting_agents_count,
     required_quorum |-> quorum,
     vote_breakdown |-> VoteCounts(vm),
     approval_percentage |-> approval_percentage,
     total_weight |-> sums[1],
     positive_weight |-> sums[2]]

\* calculate_voting_result: the weight math and the dict returned after it
WeightedOutcome(vm, MIN_VOTING_PARTICIPANTS, voting_agents_count) ==
    The(UNION {
        {OutcomeRecord(vm, MIN_VOTING_PARTICIPANTS, voting_agents_count,
                       sums, approval_percentage) :
           approval_percentage \in {ApprovalPercentage(sums[2], sums[1])}} :
        sums \in {SumWeights(vm, 1, <<FZero, FZero>>)}})

\* the tally with the quorum taken over every entry of the vote map
calculate_voting_result_len(vm, MIN_VOTING_PARTICIPANTS) ==
    IF Len(vm) < MIN_VOTING_PARTICIPANTS
    THEN QuorumFailure(vm, MIN_VOTING_PARTICIPANTS, Len(vm))
    ELSE WeightedOutcome(vm, MIN_VOTING_PARTICIPANTS, Len(vm))

\* the tally that scores the votes before it reports the missing quorum
calculate_voting_result_scored(vm, MIN_VOTING_PARTICIPANTS) ==
    LET scored == WeightedOutcome(vm, MIN_VOTING_PARTICIPANTS,
                                  VotingAgentsCount(vm))
    IN  IF VotingAgentsCount(vm) < MIN_VOTING_PARTICIPANTS
        THEN [scored EXCEPT !.outcome = "failed_quorum"]
        ELSE scored

\* AgentManager.calculate_voting_result
calculate_voting_result(vm, MIN_VOTING_PARTICIPANTS) ==
    IF VotingAgentsCount(vm) < MIN_VOTING_PARTICIPANTS
    THEN QuorumFailure(vm, MIN_VOTING_PARTICIPANTS, VotingAgentsCount(vm))
    ELSE WeightedOutcome(vm, MIN_VOTING_PARTICIPANTS, VotingAgentsCount(vm))

(***************************************************************************)
(* State.  config is the Config object the manager and the orchestrator    *)
(* share; agents is the manager's agents dict (its keys in insertion       *)
(* order, <<>> while no manager exists); reputation is reputation_score of *)
(* the module-level AGENT_PROFILES, in tenths; history is the length of    *)
(* each agent's conversation_history; votes and tally are the              *)
(* last vote map and its result; transcript, evaluation, proposal and      *)
(* result belong to the meeting run.                                       *)
(***************************************************************************)
VARIABLES config, agents, reputation, history, votes, tally, pc,
          transcript, evaluation, proposal, result, generation,
          now, failures, stored, patterns, board, returned

vars == <<config, agents, reputation, history, votes, tally, pc,
          transcript, evaluation, proposal, result, generation,
          now, failures, stored, patterns, board, returned>>

\* no file of the board yet
NoBoard == [exists |-> FALSE, todo |-> <<>>, in_progress |-> <<>>,
            done |-> <<>>]

\* the files before anything was stored: memory/failures is empty and
\* board/tasks.json does not exist; now is the second datetime.now() gives
\* and returned what the last call on the files returned
StorageInit ==
    /\ now = 0
    /\ failures = <<>>
    /\ stored = <<>>
    /\ patterns = <<>>
    /\ board = NoBoard
    /\ returned = [call |-> "none"]

\* no content has been asked of the language model
NoGeneration == [attempts |-> 0, outcome |-> "none", fallback |-> FALSE]

NoTally == [outcome |-> "none"]

NoResult == [success |-> FALSE, decisions |-> <<>>, action_items |-> <<>>,
             error |-> "not_run"]

\* reputation_score = 1.0 in every AgentProfile
InitialReputation == [a \in Roles |-> 10]

\* conversation_history = [] in every agent
EmptyHistory == [a \in Roles |-> 0]

(***************************************************************************)
(* The tally on its own: calculate_voting_result applied to vote maps.     *)
(***************************************************************************)
MaxAbsent == 1

MaxDissent == 3

Rotate(seq, k) == [i \in 1..Len(seq) |-> seq[((i - 1 + k) % Len(seq)) + 1]]

\* insertion orders of a vote map: the roster order conduct_voting gives,
\* and the order of a caller who adds the votes of ceo and pm last
Orders == {AGENT_ROLES, Rotate(AGENT_ROLES, 2)}

\* what the agents in favour and the agents against cast
ChoicePairs == {<<Approve, Neutral>>, <<ApproveWithConditions, Reject>>}

RECURSIVE SelectEntries(_, _, _, _)
SelectEntries(order, absent, dissent, pair) ==
    IF order = <<>> THEN <<>>
    ELSE LET a == Head(order)
             rest == SelectEntries(Tail(order), absent, dissent, pair)
         IN  IF a \in absent THEN rest
             ELSE <<[agent |-> a,
                     vote |-> IF a \in dissent THEN pair[2] ELSE pair[1]]>>
                  \o rest

\* the vote maps the tally is applied to: up to MaxAbsent agents missing,
\* up to MaxDissent agents against
VoteMaps ==
    { SelectEntries(order, absent, dissent, pair) :
        order \in Orders,
        absent \in {x \in SUBSET Roles : Cardinality(x) <= MaxAbsent},
        dissent \in {x \in SUBSET Roles : Cardinality(x) <= MaxDissent},
        pair \in ChoicePairs }

\* the agents with a positive weight
VotingRoles == {a \in Roles : WeightTenths[a] > 0}

QuorumValues == {DefaultMinVoting, Cardinality(VotingRoles)}

TallyInit ==
    /\ config \in [MIN_VOTING_PARTICIPANTS : QuorumValues,
                   MEETING_INTERVAL_HOURS : {6}]
    /\ agents = AGENT_ROLES
    /\ reputation = InitialReputation
    /\ history = EmptyHistory
    /\ votes = <<>>
    /\ tally = NoTally
    /\ pc = "ready"
    /\ transcript = <<>>
    /\ evaluation = <<>>
    /\ proposal = {}
    /\ result = NoResult
    /\ generation = NoGeneration
    /\ StorageInit

CalculateVotingResult ==
    /\ pc = "ready"
    /\ \E vm \in VoteMaps :
         /\ votes' = vm
         /\ tally' = calculate_voting_result(vm, config.MIN_VOTING_PARTICIPANTS)
    /\ pc' = "tallied"
    /\ UNCHANGED <<config, agents, reputation, history, transcript,
                   evaluation, proposal, result, generation,
                   now, failures, stored, patterns, board, returned>>

TallyNext == CalculateVotingResult

SpecTally == TallyInit /\ [][TallyNext]_vars

(***************************************************************************)
(* Properties of the tally.                                                *)
(***************************************************************************)
RECURSIVE SumTenths(_, _)
\* the exact sum, in tenths, of the base weights of the entries of vm whose
\* vote is in choices
SumTenths(vm, choices) ==
    IF vm = <<>> THEN 0
    ELSE (IF Head(vm).vote \in choices THEN WeightTenths[Head(vm).agent]
          ELSE 0) + SumTenths(Tail(vm), choices)

\* the voters of vm whose base weight is positive
WeightedVoters(vm) == {a \in Keys(vm) : WeightTenths[a] > 0}

QuorumMet == pc = "tallied" /\ Cardinality(WeightedVoters(votes)) >= config.MIN_VOTING_PARTICIPANTS

QuorumMissed == pc = "tallied" /\ Cardinality(WeightedVoters(votes)) < config.MIN_VOTING_PARTICIPANTS

\* C4: a vote map with fewer weighted voters than MIN_VOTING_PARTICIPANTS is
\* tallied as failed_quorum with approval_percentage, total_weight and
\* positive_weight all 0, whatever the votes are.
C4_QuorumShortCircuit ==
    QuorumMissed =>
        /\ tally.outcome = "failed_quorum"
        /\ tally.approval_percentage = FZero
        /\ tally.total_weight = FZero
        /\ tally.positive_weight = FZero

\* a failed quorum over a map that holds votes in favour and votes against
C4_Witness ==
    /\ QuorumMissed
    /\ tally.outcome = "failed_quorum"
    /\ Values(votes) \cap PositiveChoices # {}
    /\ Values(votes) \ PositiveChoices # {}

\* C5: with the quorum met the outcome is approved exactly when the positive
\* weight is at least 60% of the total weight (exactly 60% approves), and
\* rejected otherwise.
C5_InclusiveBoundary ==
    QuorumMet =>
        /\ tally.outcome \in {"approved", "rejected"}
        /\ tally.outcome = "approved" <=>
             100 * SumTenths(votes, PositiveChoices)
                 >= 60 * SumTenths(votes, ValidChoices)

WithoutAgent(vm, agent_id) == SelectSeq(vm, LAMBDA en : en.agent # agent_id)

\* C7: the vote of the zero-weight agent changes nothing in the tally: the
\* voting count, total_weight, positive_weight, approval_percentage and
\* outcome of a map holding memory's vote are those of the map without it.
C7_AdvisoryVoteIgnored ==
    (pc = "tallied" /\ "memory" \in Keys(votes)) =>
        LET without == calculate_voting_result(WithoutAgent(votes, "memory"),
                                               config.MIN_VOTING_PARTICIPANTS)
        IN  /\ tally.voting_agents_count = without.voting_agents_count
            /\ tally.total_weight = without.total_weight
            /\ tally.positive_weight = without.positive_weight
            /\ tally.approval_percentage = without.approval_percentage
            /\ tally.outcome = without.outcome

\* memory voted in favour in a map that met the quorum and was rejected
C7_Witness ==
    /\ QuorumMet
    /\ \E i \in 1..Len(votes) :
         votes[i].agent = "memory" /\ votes[i].vote \in PositiveChoices
    /\ tally.outcome = "rejected"

(***************************************************************************)
(* The agent manager: construction under a configuration, resets,          *)
(* discussion rounds and reputation changes.  agents is the agents dict of *)
(* the manager the last AgentManager(config) call returned, <<>> when it   *)
(* raised or was never made.                                               *)
(***************************************************************************)
\* the values the configuration test assigns to a key
MaxConfigValue == 24

ConfigKeys == {"MIN_VOTING_PARTICIPANTS", "MEETING_INTERVAL_HOURS"}

DefaultConfig ==
    [MIN_VOTING_PARTICIPANTS |-> DefaultMinVoting, MEETING_INTERVAL_HOURS |-> 6]

\* AGENT_PROFILES has a profile for every role
ProfileIds == Roles

\* AgentManager._initialize_agents: the keys of self.agents, in order
InitializeAgents == SelectSeq(AGENT_ROLES, LAMBDA a : a \in ProfileIds)

\* the manager that keeps no agent for the advisory role
get_voting_agents_all(ag) == ag

\* AgentManager.get_voting_agents: the keys of the returned dict, in order
get_voting_agents(ag) ==
    SelectSeq(ag, LAMBDA a : FGt(VOTING_WEIGHTS[a], FZero))

\* the validation that never looks at MIN_VOTING_PARTICIPANTS
ValidateInitialization_count(ag, cfg) ==
    Len(ag) = 10 /\ Roles \ {ag[i] : i \in 1..Len(ag)} = {}

\* AgentManager._validate_initialization: TRUE when nothing is raised
ValidateInitialization(ag, cfg) ==
    /\ Len(ag) = 10
    /\ Roles \ {ag[i] : i \in 1..Len(ag)} = {}
    /\ Len(get_voting_agents(ag)) >= cfg.MIN_VOTING_PARTICIPANTS

MaxHistory == 1

MaxChanged == 2

MaxReputation == 20

\* score_change arguments, in tenths: a penalty large enough to reach the
\* floor of 0.1
ScoreChanges == {-10}

AgentsInit ==
    /\ config = DefaultConfig
    /\ agents = <<>>
    /\ reputation = InitialReputation
    /\ history = EmptyHistory
    /\ votes = <<>>
    /\ tally = NoTally
    /\ pc = "new"
    /\ transcript = <<>>
    /\ evaluation = <<>>
    /\ proposal = {}
    /\ result = NoResult
    /\ generation = NoGeneration
    /\ StorageInit

\* setattr(config, key, value), as the configuration test does
SetConfig ==
    /\ \E key \in ConfigKeys, value \in 1..MaxConfigValue :
         config' = [config EXCEPT ![key] = value]
    /\ UNCHANGED <<agents, reputation, history, votes, tally, pc, transcript,
                   evaluation, proposal, result, generation,
                   now, failures, stored, patterns, board, returned>>

\* a constructor that skips _validate_initialization
Construct_unvalidated ==
    /\ agents' = InitializeAgents
    /\ pc' = "ready"
    /\ history' = EmptyHistory
    /\ UNCHANGED <<config, reputation, votes, tally, transcript, evaluation,
                   proposal, result, generation,
                   now, failures, stored, patterns, board, returned>>

\* AgentManager(config): _initialize_agents, then _validate_initialization
Construct ==
    /\ IF ValidateInitialization(InitializeAgents, config)
       THEN agents' = InitializeAgents /\ pc' = "ready"
       ELSE agents' = <<>> /\ pc' = "config_error"
    /\ history' = EmptyHistory
    /\ UNCHANGED <<config, reputation, votes, tally, transcript, evaluation,
                   proposal, result, generation,
                   now, failures, stored, patterns, board, returned>>

\* AgentManager.reset_all_agents
ResetAllAgents ==
    /\ agents # <<>>
    /\ history' = EmptyHistory
    /\ pc' = "reset"
    /\ UNCHANGED <<config, agents, reputation, votes, tally, transcript,
                   evaluation, proposal, result, generation,
                   now, failures, stored, patterns, board, returned>>

\* AgentManager._generate_agent_message: the Message it returns
generate_agent_message(agent_id) ==
    [agent |-> agent_id, type |-> "contribution"]

\* a discussion that asks the agents that vote
conduct_discussion_voters(participants) ==
    <<generate_agent_message("chair")>> \o
    [i \in 1..Len(SelectSeq(participants, LAMBDA a : a \notin {"chair", "memory"})) |->
       generate_agent_message(
         SelectSeq(participants, LAMBDA a : a \notin {"chair", "memory"})[i])]

\* AgentManager.conduct_discussion: the list it returns, for the loop over
\* participants = AGENT_ROLES
conduct_discussion(participants) ==
    <<generate_agent_message("chair")>> \o
    [i \in 1..Len(SelectSeq(participants, LAMBDA a : a # "chair")) |->
       generate_agent_message(
         SelectSeq(participants, LAMBDA a : a # "chair")[i])]

\* a discussion whose messages are added to the list of the round before
ConductDiscussion_accumulating ==
    /\ agents # <<>>
    /\ \A a \in Roles : history[a] < MaxHistory
    /\ transcript' = transcript \o conduct_discussion(AGENT_ROLES)
    /\ history' = [a \in Roles |-> history[a] + 1]
    /\ pc' = "discussed"
    /\ UNCHANGED <<config, agents, reputation, votes, tally, evaluation,
                   proposal, result, generation,
                   now, failures, stored, patterns, board, returned>>

\* AgentManager.conduct_discussion: one message from the chair, then one
\* from every other agent, each added to its author's history; transcript
\* is the list returned to the caller
ConductDiscussion ==
    /\ agents # <<>>
    /\ \A a \in Roles : history[a] < MaxHistory
    /\ transcript' = conduct_discussion(AGENT_ROLES)
    /\ history' =
         [a \in Roles |->
            history[a] + Cardinality({i \in DOMAIN transcript' :
                                        transcript'[i].agent = a})]
    /\ pc' = "discussed"
    /\ UNCHANGED <<config, agents, reputation, votes, tally, evaluation,
                   proposal, result, generation,
                   now, failures, stored, patterns, board, returned>>

\* an update without the floor of 0.1
update_reputation_unfloored(score, score_change) == score + score_change

\* BaseAgent.update_reputation: max(0.1, reputation_score + score_change)
update_reputation(score, score_change) ==
    IF score + score_change > 1 THEN score + score_change ELSE 1

UpdateReputation ==
    /\ agents # <<>>
    /\ \E a \in Roles, score_change \in ScoreChanges :
         /\ reputation' =
              [reputation EXCEPT ![a] = update_reputation(@, score_change)]
         /\ Cardinality({b \in Roles : reputation'[b] # 10}) <= MaxChanged
    /\ UNCHANGED <<config, agents, history, votes, tally, pc, transcript,
                   evaluation, proposal, result, generation,
                   now, failures, stored, patterns, board, returned>>

\* BaseAgent.update_reputation with a reward of 1.0
RewardReputation ==
    /\ agents # <<>>
    /\ \E a \in Roles :
         /\ reputation' = [reputation EXCEPT ![a] = update_reputation(@, 10)]
         /\ Cardinality({b \in Roles : reputation'[b] # 10}) <= MaxChanged
         /\ reputation'[a] <= MaxReputation
    /\ UNCHANGED <<config, agents, history, votes, tally, pc, transcript,
                   evaluation, proposal, result, generation,
                   now, failures, stored, patterns, board, returned>>

AgentsNext ==
    \/ Construct
    \/ ResetAllAgents
    \/ ConductDiscussion
    \/ UpdateReputation
    \/ RewardReputation

\* managers under the default configuration
SpecAgents == AgentsInit /\ [][AgentsNext]_vars

ConfigNext ==
    \/ SetConfig
    \/ Construct
    \/ ResetAllAgents

\* managers under changed configurations
SpecConfig == AgentsInit /\ [][ConfigNext]_vars

\* the ids a manager holds
AgentIds == {agents[i] : i \in 1..Len(agents)}

\* C9: whatever reputation changes and resets came before, get_voting_agents
\* returns exactly the agents whose base weight is positive, 9 of the 10,
\* and never memory.
C9_VotingSubset ==
    agents # <<>> =>
        LET voting == get_voting_agents(agents)
            ids == {voting[i] : i \in 1..Len(voting)}
        IN  /\ ids = {a \in Roles : WeightTenths[a] > 0}
            /\ Len(voting) = 9
            /\ "memory" \notin ids

\* a manager whose agents were reset after a reputation change
C9_Witness ==
    /\ pc = "reset"
    /\ \E a \in Roles : reputation[a] # 10
    /\ Len(get_voting_agents(agents)) = 9

C21_OneMessagePerAgent ==
    [][ConductDiscussion =>
          /\ Len(transcript') = 10
          /\ transcript'[1].agent = "chair"
          /\ [i \in 1..9 |-> transcript'[i + 1].agent] =
                SelectSeq(AGENT_ROLES, LAMBDA a : a # "chair")
          /\ {transcript'[i].agent : i \in 1..10} = Roles]_vars

\* a round held after a reset that followed an earlier round
C21_Witness ==
    /\ pc = "discussed"
    /\ Len(transcript) = 10
    /\ \A a \in Roles : history[a] = 1

C25_ReputationFloor ==
    \A a \in Roles :
       /\ reputation[a] >= 1
       /\ WeightTenths[a] > 0 => WeightTenths[a] * reputation[a] > 0

\* a score held at the floor and another raised above 1.0
C25_Witness ==
    /\ agents # <<>>
    /\ \E a, b \in Roles : reputation[a] = 1 /\ reputation[b] = 20

(***************************************************************************)
(* Voting.  A proposal is known by the keywords its title and description  *)
(* hold, which is all vote_on_proposal reads of it.                        *)
(***************************************************************************)
TitleFeatures == {"title_free", "title_tech", "title_tool", "title_library"}

DescriptionFeatures ==
    {"high_risk", "high_competition", "costly", "complex", "very_complex",
     "advanced", "market", "manageable", "strategic"}

MaxFeatures == 1

Proposals ==
    {f \in SUBSET (TitleFeatures \cup DescriptionFeatures) :
        Cardinality(f) <= MaxFeatures}

\* the critic's answer to a high-risk proposal, a string of its own
NeutralNeedsInfo == "neutral_needs_info"

\* random.choice(["موافق", "موافق", "محايد", "موافق بشروط"])
BalancedChoices == {Approve, Neutral, ApproveWithConditions}

\* "معقد" is part of "معقد جداً"
HasComplex(f) == "complex" \in f \/ "very_complex" \in f

\* SimpleAgent.vote_on_proposal; random_choice is what random.choice gives
vote_on_proposal(agent_id, f, random_choice) ==
    CASE agent_id = "critic" ->
           IF "high_risk" \in f THEN NeutralNeedsInfo
           ELSE IF "high_competition" \in f THEN ApproveWithConditions
           ELSE Approve
      [] agent_id = "finance" ->
           IF "costly" \in f THEN ApproveWithConditions
           ELSE IF "title_free" \in f THEN Neutral
           ELSE Approve
      [] agent_id = "qa" ->
           IF HasComplex(f) \/ "advanced" \in f THEN ApproveWithConditions
           ELSE Approve
      [] agent_id = "cto" ->
           IF "title_tech" \in f \/ "title_tool" \in f THEN Approve
           ELSE Neutral
      [] agent_id = "developer" ->
           IF "title_library" \in f \/ "title_tool" \in f THEN Approve
           ELSE IF "very_complex" \in f THEN ApproveWithConditions
           ELSE Approve
      [] agent_id = "marketing" ->
           IF "market" \in f THEN Approve ELSE Neutral
      [] agent_id = "pm" ->
           IF "manageable" \in f THEN Approve
           ELSE IF HasComplex(f) THEN ApproveWithConditions
           ELSE Approve
      [] agent_id = "ceo" -> Approve
      [] OTHER -> random_choice

\* AgentManager.conduct_voting: one vote per voting agent, in roster order
conduct_voting(ag, f, random_choice) ==
    LET voting_agents == get_voting_agents(ag)
    IN  [i \in 1..Len(voting_agents) |->
           [agent |-> voting_agents[i],
            vote |-> vote_on_proposal(voting_agents[i], f, random_choice)]]

OrchestratorInit ==
    /\ config = DefaultConfig
    /\ agents = InitializeAgents
    /\ reputation = InitialReputation
    /\ history = EmptyHistory
    /\ votes = <<>>
    /\ tally = NoTally
    /\ pc = "ready"
    /\ transcript = <<>>
    /\ evaluation = <<>>
    /\ proposal = {}
    /\ result = NoResult
    /\ generation = NoGeneration
    /\ StorageInit

ConductVoting ==
    /\ pc = "ready"
    /\ \E f \in Proposals, random_choice \in BalancedChoices :
         /\ proposal' = f
         /\ votes' = conduct_voting(agents, f, random_choice)
    /\ pc' = "voted"
    /\ UNCHANGED <<config, agents, reputation, history, tally, transcript,
                   evaluation, result, generation,
                   now, failures, stored, patterns, board, returned>>

TallyVotes ==
    /\ pc = "voted"
    /\ tally' = calculate_voting_result(votes, config.MIN_VOTING_PARTICIPANTS)
    /\ pc' = "tallied"
    /\ UNCHANGED <<config, agents, reputation, history, votes, transcript,
                   evaluation, proposal, result, generation,
                   now, failures, stored, patterns, board, returned>>

VotingNext ==
    \/ UpdateReputation
    \/ ConductVoting
    \/ TallyVotes

\* votes of a manager whose agents' reputations change
SpecVoting == OrchestratorInit /\ [][VotingNext]_vars

RECURSIVE EffectiveHundredths(_, _, _)
\* the exact sum, in hundredths, of voting_weight * reputation_score over the
\* entries of vm whose vote is in choices
EffectiveHundredths(vm, rp, choices) ==
    IF vm = <<>> THEN 0
    ELSE (IF Head(vm).vote \in choices
          THEN WeightTenths[Head(vm).agent] * rp[Head(vm).agent] ELSE 0)
         + EffectiveHundredths(Tail(vm), rp, choices)

\* the float fw is hundredths / 100 to within half a hundredth
IsHundredths(fw, hundredths) ==
    /\ FGeq(FMulInt(fw, 100), FDiv(FFromInt(2 * hundredths - 1), FFromInt(2)))
    /\ FGeq(FDiv(FFromInt(2 * hundredths + 1), FFromInt(2)), FMulInt(fw, 100))

AnyChoice == ValidChoices \cup {NeutralNeedsInfo}

\* C6: a tally with the quorum met has total_weight equal to the sum of
\* voting_weight * reputation_score over all voters and positive_weight equal
\* to that sum over the voters in favour, whatever the reputations are.
C6_EffectiveWeights ==
    [][(pc = "voted" /\ pc' = "tallied"
        /\ tally'.outcome # "failed_quorum") =>
          /\ IsHundredths(tally'.total_weight,
                          EffectiveHundredths(votes, reputation, AnyChoice))
          /\ IsHundredths(tally'.positive_weight,
                          EffectiveHundredths(votes, reputation,
                                              PositiveChoices))]_vars

\* C23: conduct_voting returns one vote for each agent with a positive
\* weight and none for memory, and every vote is one of the five choices
\* approve, approve with conditions, neutral, reject, needs more information.
C23_OneValidVoteEach ==
    pc \in {"voted", "tallied"} =>
        /\ Len(votes) = Cardinality(VotingRoles)
        /\ Keys(votes) = VotingRoles
        /\ "memory" \notin Keys(votes)
        /\ Values(votes) \subseteq ValidChoices

(***************************************************************************)
(* The meeting: MeetingOrchestrator.run_meeting and _simulate_meeting.     *)
(***************************************************************************)

\* what _validate_critic_evaluation reads of the critic's message: its
\* length, its words, how many of the five keyword groups it touches, the
\* counts of "جيد" and "ممتاز", and the three phrase tests
TextOf(chars, words, elements, good, excellent, no_problems, emergency, useful) ==
    [chars |-> chars, words |-> words, elements |-> elements, good |-> good,
     excellent |-> excellent, no_problems |-> no_problems,
     emergency |-> emergency, useful |-> useful]

\* the fallback evaluation of _conduct_critic_evaluation
FallbackEvaluation == TextOf(231, 35, 5, 0, 0, FALSE, TRUE, TRUE)

CriticTexts ==
    {FallbackEvaluation,
     \* "كـCritic، أقدر هذه المناقشة وأدعم القرارات المدروسة."
     TextOf(52, 7, 0, 0, 0, FALSE, FALSE, FALSE),
     \* "جيد"
     TextOf(3, 1, 0, 1, 0, FALSE, FALSE, FALSE),
     \* "مخاطر عالية"
     TextOf(11, 2, 1, 0, 0, FALSE, TRUE, FALSE),
     \* "جيد جيد جيد جيد جيد جيد ولكن"
     TextOf(28, 7, 1, 6, 0, FALSE, FALSE, FALSE),
     \* "هذا تقييم أولي"
     TextOf(14, 3, 0, 0, 0, FALSE, FALSE, TRUE),
     \* "سوق العملاء كبير"
     TextOf(16, 3, 1, 0, 0, FALSE, FALSE, FALSE)}

MinLength == 20
MinElements == 1
MaxRepeats == 5
MinWords == 3
MinUsefulLength == 10

\* a validation that lets a text through once the critic has spoken
validate_critic_evaluation_lenient(text) ==
    \/ history["critic"] > 0
    \/ IF text.chars < MinLength /\ text.emergency THEN TRUE
       ELSE \/ /\ text.chars >= MinLength
               /\ text.elements >= MinElements
               /\ ~(\/ text.good > MaxRepeats
                    \/ text.excellent > MaxRepeats
                    \/ text.no_problems)
               /\ text.words >= MinWords
            \/ text.chars > MinUsefulLength /\ text.useful

\* MeetingOrchestrator._validate_critic_evaluation
validate_critic_evaluation(text) ==
    LET min_length_met == text.chars >= MinLength
        elements_met == text.elements >= MinElements
        not_too_generic == ~(\/ text.good > MaxRepeats
                             \/ text.excellent > MaxRepeats
                             \/ text.no_problems)
        has_substance == text.words >= MinWords
        is_valid == /\ min_length_met
                    /\ elements_met
                    /\ not_too_generic
                    /\ has_substance
    IN  IF text.chars < MinLength /\ text.emergency THEN TRUE
        ELSE \/ is_valid
             \/ text.chars > MinUsefulLength /\ text.useful

\* MeetingOrchestrator._create_agent_message: the transcript entry
create_agent_message(agent_id, meeting_phase) ==
    [agent |-> agent_id, type |-> "contribution", phase |-> meeting_phase]

\* the entry of a project suggestion, built without _create_agent_message
ProjectMessage(agent_id) ==
    [agent |-> agent_id, type |-> "project_proposal", phase |-> "brainstorming"]

\* _create_agent_message adds its message to the history of its agent
AddMessages(h, entries) ==
    [a \in Roles |->
       h[a] + Cardinality({i \in DOMAIN entries :
                             /\ entries[i].agent = a
                             /\ entries[i].type = "contribution"})]

Phases(tr) == {tr[i].phase : i \in DOMAIN tr}

\* MeetingOrchestrator._generate_action_items
generate_action_items_review(outcome) ==
    IF outcome = "failed_quorum"
    THEN <<"reschedule_vote", "ensure_attendance">>
    ELSE <<"review_rejection", "analyse_feedback", "reassess_feasibility">>

generate_action_items_research(outcome) ==
    IF outcome = "approved"
    THEN <<"create_repository", "write_specification", "design_database",
           "build_prototype", "build_interface", "build_api", "write_tests">>
    ELSE IF outcome = "rejected"
    THEN <<"review_rejection", "analyse_feedback", "reassess_feasibility">>
    ELSE <<"research_project", "collect_information">>

generate_action_items(outcome) ==
    IF outcome = "approved"
    THEN <<"create_repository", "write_specification", "design_database",
           "build_prototype", "build_interface", "build_api", "write_tests">>
    ELSE IF outcome = "rejected"
    THEN <<"review_rejection", "analyse_feedback", "reassess_feasibility">>
    ELSE IF outcome = "failed_quorum"
    THEN <<"reschedule_vote", "ensure_attendance">>
    ELSE <<"research_project", "collect_information">>

RECURSIVE extract_action_items(_)
\* MeetingOrchestrator._extract_action_items
extract_action_items(decisions) ==
    IF decisions = <<>> THEN <<>>
    ELSE Head(decisions).action_items \o extract_action_items(Tail(decisions))

\* what MemorySystem.store_voting_history answers; the answer is only logged
store_voting_history == BOOLEAN

GateError == "critic_evaluation_failed"

\* config.MIN_VOTING_PARTICIPANTS = value on the configuration of a built
\* orchestrator, between its meetings
QuorumSettings == {DefaultMinVoting, Cardinality(VotingRoles) + 1}

ChangeQuorum ==
    /\ pc \in {"ready", "done"}
    /\ \E value \in QuorumSettings \ {config.MIN_VOTING_PARTICIPANTS} :
         config' = [config EXCEPT !.MIN_VOTING_PARTICIPANTS = value]
    /\ UNCHANGED <<agents, reputation, history, votes, tally, pc, transcript,
                   evaluation, proposal, result, generation,
                   now, failures, stored, patterns, board, returned>>

\* run_meeting up to the brainstorming message
OpenMeeting ==
    /\ pc \in {"ready", "done"}
    /\ LET entries == <<create_agent_message("chair", "opening"),
                        create_agent_message("chair", "brainstorming")>>
       IN  /\ transcript' = entries
           /\ history' = AddMessages(EmptyHistory, entries)
    /\ votes' = <<>>
    /\ tally' = NoTally
    /\ evaluation' = <<>>
    /\ proposal' = {}
    /\ result' = NoResult
    /\ generation' = NoGeneration
    /\ pc' = "brainstorming"
    /\ UNCHANGED <<config, agents, reputation,
                   now, failures, stored, patterns, board, returned>>

\* the three suggestions, the discussion, and the selection of the first one
SelectProposal ==
    /\ pc = "brainstorming"
    /\ \E f \in Proposals : proposal' = f
    /\ LET entries == <<ProjectMessage("ceo"), ProjectMessage("cto"),
                        ProjectMessage("developer"),
                        create_agent_message("chair", "detailed_discussion"),
                        create_agent_message("chair", "final_selection"),
                        create_agent_message("chair",
                                             "critic_evaluation_required")>>
       IN  /\ transcript' = transcript \o entries
           /\ history' = AddMessages(history, entries)
    /\ pc' = "critic_evaluation"
    /\ UNCHANGED <<config, agents, reputation, votes, tally, evaluation,
                   result, generation,
                   now, failures, stored, patterns, board, returned>>

\* _conduct_critic_evaluation
ConductCriticEvaluation ==
    /\ pc = "critic_evaluation"
    /\ \E text \in CriticTexts : evaluation' = text
    /\ LET entries ==
             <<create_agent_message("critic", "mandatory_critic_evaluation")>>
       IN  /\ transcript' = transcript \o entries
           /\ history' = AddMessages(history, entries)
    /\ pc' = "gate"
    /\ UNCHANGED <<config, agents, reputation, votes, tally, proposal, result,
                   generation,
                   now, failures, stored, patterns, board, returned>>

\* the gate fails: two messages of the chair, _simulate_meeting returns the
\* empty list and run_meeting reports the failure
GateBlocked ==
    /\ pc = "gate"
    /\ ~validate_critic_evaluation(evaluation)
    /\ LET entries ==
             <<create_agent_message("chair", "critic_evaluation_failed"),
               create_agent_message("chair", "critic_evaluation_importance")>>
       IN  /\ transcript' = transcript \o entries
           /\ history' = AddMessages(history, entries)
    /\ result' = [success |-> FALSE, decisions |-> <<>>,
                  action_items |-> <<>>, error |-> GateError]
    /\ pc' = "done"
    /\ UNCHANGED <<config, agents, reputation, votes, tally, evaluation,
                   proposal, generation,
                   now, failures, stored, patterns, board, returned>>

GatePassed_unchecked ==
    /\ pc = "gate"
    /\ LET entries ==
             <<create_agent_message("chair", "critic_evaluation_passed"),
               create_agent_message("chair", "voting_phase")>>
       IN  /\ transcript' = transcript \o entries
           /\ history' = AddMessages(history, entries)
    /\ pc' = "voting"
    /\ UNCHANGED <<config, agents, reputation, votes, tally, evaluation,
                   proposal, result, generation,
                   now, failures, stored, patterns, board, returned>>

\* the gate passes: the chair announces it and opens the vote
GatePassed ==
    /\ pc = "gate"
    /\ validate_critic_evaluation(evaluation)
    /\ LET entries ==
             <<create_agent_message("chair", "critic_evaluation_passed"),
               create_agent_message("chair", "voting_phase")>>
       IN  /\ transcript' = transcript \o entries
           /\ history' = AddMessages(history, entries)
    /\ pc' = "voting"
    /\ UNCHANGED <<config, agents, reputation, votes, tally, evaluation,
                   proposal, result, generation,
                   now, failures, stored, patterns, board, returned>>

\* conduct_voting and one justification per vote
CastVotes ==
    /\ pc = "voting"
    /\ \E random_choice \in BalancedChoices :
         \E vm \in {conduct_voting(agents, proposal, random_choice)} :
           /\ votes' = vm
           /\ LET entries ==
                    [i \in DOMAIN vm |->
                       create_agent_message(vm[i].agent, "vote_justification")]
              IN  /\ transcript' = transcript \o entries
                  /\ history' = AddMessages(history, entries)
    /\ pc' = "tally"
    /\ UNCHANGED <<config, agents, reputation, tally, evaluation, proposal,
                   result, generation,
                   now, failures, stored, patterns, board, returned>>

\* calculate_voting_result, store_voting_history and the chair's announcement
AnnounceResult ==
    /\ pc = "tally"
    /\ \E voting_stored \in store_voting_history :
         \E voting_result \in
              {calculate_voting_result(votes, config.MIN_VOTING_PARTICIPANTS)} :
           /\ tally' = voting_result
           /\ LET entries ==
                    IF voting_result.outcome = "failed_quorum"
                    THEN <<create_agent_message("chair", "quorum_failure")>>
                    ELSE <<create_agent_message("chair",
                                                "result_announcement")>>
              IN  /\ transcript' = transcript \o entries
                  /\ history' = AddMessages(history, entries)
    /\ pc' = "closing"
    /\ UNCHANGED <<config, agents, reputation, votes, evaluation, proposal,
                   result, generation,
                   now, failures, stored, patterns, board, returned>>

\* the closing message; _simulate_meeting returns the transcript
CloseMeeting ==
    /\ pc = "closing"
    /\ LET entries == <<create_agent_message("chair", "closing")>>
       IN  /\ transcript' = transcript \o entries
           /\ history' = AddMessages(history, entries)
    /\ pc' = "extract"
    /\ UNCHANGED <<config, agents, reputation, votes, tally, evaluation,
                   proposal, result, generation,
                   now, failures, stored, patterns, board, returned>>

\* the decision _extract_decisions builds from a vote of its own
DecisionOf(f, vm, voting_result) ==
    [id |-> "decision_001",
     title |-> f \cap TitleFeatures,
     project_details |-> [full_description |-> f, proposed_by |-> "ceo"],
     roi |-> "roi_analysis",
     votes |-> vm,
     outcome |-> voting_result.outcome,
     voting_details |-> voting_result,
     action_items |-> generate_action_items(voting_result.outcome)]

\* _extract_decisions, _extract_action_items and the result of run_meeting
ExtractDecisions ==
    /\ pc = "extract"
    /\ \E random_choice \in BalancedChoices, voting_stored \in store_voting_history :
         \E vm \in {conduct_voting(agents, proposal, random_choice)} :
           \E voting_result \in
                {calculate_voting_result(vm, config.MIN_VOTING_PARTICIPANTS)} :
             \E decisions \in {<<DecisionOf(proposal, vm, voting_result)>>} :
               result' = [success |-> TRUE, decisions |-> decisions,
                          action_items |-> extract_action_items(decisions),
                          error |-> "none"]
    /\ pc' = "done"
    /\ UNCHANGED <<config, agents, reputation, history, votes, tally,
                   transcript, evaluation, proposal, generation,
                   now, failures, stored, patterns, board, returned>>

MeetingNext ==
    \/ ChangeQuorum
    \/ OpenMeeting
    \/ SelectProposal
    \/ ConductCriticEvaluation
    \/ GateBlocked
    \/ GatePassed
    \/ CastVotes
    \/ AnnounceResult
    \/ CloseMeeting
    \/ ExtractDecisions

\* the meetings of one orchestrator
SpecMeeting == OrchestratorInit /\ [][MeetingNext]_vars

GateOpen == evaluation # <<>> /\ validate_critic_evaluation(evaluation)

GateShut == evaluation # <<>> /\ ~validate_critic_evaluation(evaluation)

\* C1: votes, a tally and a decision exist only in a run whose critic
\* evaluation passed the gate; when the gate fails no vote is cast, no tally
\* is computed and no decision exists.
C1_VoteOnlyAfterGate ==
    /\ (\/ votes # <<>>
        \/ tally # NoTally
        \/ result.decisions # <<>>
        \/ "vote_justification" \in Phases(transcript)) => GateOpen
    /\ (GateShut /\ pc = "done") =>
          /\ votes = <<>>
          /\ tally = NoTally
          /\ result.decisions = <<>>

C1_Witness ==
    /\ pc = "done"
    /\ GateShut
    /\ "critic_evaluation_failed" \in Phases(transcript)
    /\ votes = <<>>

\* C2: a run whose critic evaluation fails the gate is reported with
\* success = true and an empty decision set.
C2_GateBlockedIsSuccess ==
    (pc = "done" /\ GateShut) =>
        (result.success /\ result.decisions = <<>>)

\* C3: every finished run has the closing entry as the last entry of its
\* transcript, whichever branch preceded it.
C3_AlwaysClosing ==
    pc = "done" => transcript[Len(transcript)].phase = "closing"

\* C8: a run whose tally failed the quorum is reported with success = true
\* and exactly one decision, of outcome failed_quorum, whose action items
\* are the two of the reschedule and attendance checklist.
C8_FailedQuorumDecision ==
    (pc = "done" /\ tally # NoTally /\ tally.outcome = "failed_quorum") =>
        /\ result.success
        /\ Len(result.decisions) = 1
        /\ result.decisions[1].outcome = "failed_quorum"
        /\ result.decisions[1].action_items =
              <<"reschedule_vote", "ensure_attendance">>
        /\ result.action_items = <<"reschedule_vote", "ensure_attendance">>

C8_Witness ==
    /\ pc = "done"
    /\ tally # NoTally
    /\ tally.outcome = "failed_quorum"
    /\ Len(result.decisions) = 1

(***************************************************************************)
(* Start-up: MeetingOrchestrator(config) under the configuration read from *)
(* the environment, and the meetings of the orchestrator it yields.        *)
(***************************************************************************)

\* MIN_VOTING_PARTICIPANTS as the environment may give it
StartupQuorums ==
    {DefaultMinVoting, Cardinality(VotingRoles),
     Cardinality(VotingRoles) + 1, MaxConfigValue}

StartupInit ==
    /\ config \in [MIN_VOTING_PARTICIPANTS : StartupQuorums,
                   MEETING_INTERVAL_HOURS : {DefaultConfig.MEETING_INTERVAL_HOURS}]
    /\ agents = <<>>
    /\ reputation = InitialReputation
    /\ history = EmptyHistory
    /\ votes = <<>>
    /\ tally = NoTally
    /\ pc = "new"
    /\ transcript = <<>>
    /\ evaluation = <<>>
    /\ proposal = {}
    /\ result = NoResult
    /\ generation = NoGeneration
    /\ StorageInit

\* MeetingOrchestrator.__init__: it builds the AgentManager and lets the
\* ValueError of _validate_initialization through to its caller
StartOrchestrator ==
    /\ pc \in {"new", "config_error"}
    /\ Construct

StartupNext ==
    \/ StartOrchestrator
    \/ OpenMeeting
    \/ SelectProposal
    \/ ConductCriticEvaluation
    \/ GateBlocked
    \/ GatePassed
    \/ CastVotes
    \/ AnnounceResult
    \/ CloseMeeting
    \/ ExtractDecisions

\* an orchestrator from its construction on, the configuration unchanged
SpecStartup == StartupInit /\ [][StartupNext]_vars

QuorumUnsatisfiable ==
    Cardinality({a \in Roles : WeightTenths[a] > 0})
        < config.MIN_VOTING_PARTICIPANTS

C28_QuorumAlwaysMet ==
    /\ tally # NoTally => tally.outcome # "failed_quorum"
    /\ \A i \in DOMAIN result.decisions :
          result.decisions[i].outcome # "failed_quorum"

\* a finished run under the largest quorum floor that construction accepts
C28_Witness ==
    /\ pc = "done"
    /\ config.MIN_VOTING_PARTICIPANTS = Cardinality(VotingRoles)
    /\ tally # NoTally
    /\ tally.outcome \in {"approved", "rejected"}
    /\ Len(result.decisions) = 1

(***************************************************************************)
(* The gate on its own: _validate_critic_evaluation applied to messages of *)
(* every shape its tests tell apart.                                       *)
(***************************************************************************)
CharCounts == {0, 9, 10, 11, 19, 20, 30, 60}

WordCounts == {0, 2, 3, 7}

ElementCounts == {0, 1, 5}

PraiseCounts == {0, 5, 6}

\* the shortest keyword of the five groups, of the emergency list and of
\* the useful-content list has 3 characters, as has "جيد"; "ممتاز" has 5
ShortestKeyword == 3
ExcellentLength == 5
\* "غير مناسب", the one emergency keyword that is in no keyword group
UnsuitableLength == 9
\* "لا مشاكل على الإطلاق": 4 words that hold the group keyword "مشاكل"
NoProblemsLength == 20
NoProblemsWords == 4

\* the messages a string can give rise to
GateTexts ==
    {t \in [chars : CharCounts, words : WordCounts, elements : ElementCounts,
            good : PraiseCounts, excellent : PraiseCounts,
            no_problems : BOOLEAN, emergency : BOOLEAN, useful : BOOLEAN] :
        /\ 2 * t.words <= t.chars + 1
        /\ ShortestKeyword * (t.elements + t.good)
              + ExcellentLength * t.excellent
              + (IF t.useful THEN ShortestKeyword ELSE 0)
              + (IF t.no_problems THEN NoProblemsLength - ShortestKeyword
                 ELSE 0) <= t.chars
        /\ t.no_problems =>
              /\ t.chars >= NoProblemsLength
              /\ t.words >= NoProblemsWords
              /\ t.elements >= 1
        /\ t.emergency => t.chars >= ShortestKeyword
        /\ (t.emergency /\ t.elements = 0) =>
              (t.chars >= UnsuitableLength /\ t.words >= 2)
        /\ t.useful => t.chars >= ShortestKeyword
        /\ (t.elements > 0 \/ t.emergency \/ t.useful \/ t.good > 0
              \/ t.excellent > 0) => t.words >= 1}

GateInit ==
    /\ config = DefaultConfig
    /\ agents = InitializeAgents
    /\ reputation = InitialReputation
    /\ history = EmptyHistory
    /\ votes = <<>>
    /\ tally = NoTally
    /\ pc = "ready"
    /\ transcript = <<>>
    /\ evaluation \in GateTexts
    /\ proposal = {}
    /\ result = NoResult
    /\ generation = NoGeneration
    /\ StorageInit

\* _validate_critic_evaluation on an entry of the given author that holds
\* the message; the author's history has grown by the entry
ValidateCriticEvaluation ==
    /\ \E author \in Roles :
         LET entries ==
               <<create_agent_message(author, "mandatory_critic_evaluation")>>
         IN  /\ transcript' = entries
             /\ history' = AddMessages(EmptyHistory, entries)
    /\ pc' = IF validate_critic_evaluation(evaluation)
             THEN "accepted" ELSE "rejected"
    /\ UNCHANGED <<config, agents, reputation, votes, tally, evaluation,
                   proposal, result, generation,
                   now, failures, stored, patterns, board, returned>>

GateNext == ValidateCriticEvaluation

\* validations of one message
SpecGate == GateInit /\ [][GateNext]_vars

Validated == pc \in {"accepted", "rejected"}

GenericPraise(text) ==
    \/ text.good > MaxRepeats
    \/ text.excellent > MaxRepeats
    \/ text.no_problems

\* C12: a message of at least 20 characters that is dominated by generic
\* praise is rejected, whatever keywords it holds besides.
C12_GenericPraiseRejected ==
    (Validated /\ evaluation.chars >= 20 /\ GenericPraise(evaluation)) =>
        pc = "rejected"

\* C13: a message is accepted exactly when it has at least 20 characters, a
\* hit in one of the five keyword groups, no generic praise and at least 3
\* words, or when it has fewer than 20 characters and an emergency keyword.
C13_AcceptedExactlyWhen ==
    Validated =>
        (pc = "accepted" <=>
            \/ /\ evaluation.chars >= 20
               /\ evaluation.elements >= 1
               /\ ~GenericPraise(evaluation)
               /\ evaluation.words >= 3
            \/ evaluation.chars < 20 /\ evaluation.emergency)

PhaseOf(meeting_phase) ==
    CASE meeting_phase = "opening" -> "Opening"
      [] meeting_phase = "brainstorming" -> "Brainstorming"
      [] meeting_phase \in {"detailed_discussion", "final_selection"} ->
           "Discussion"
      [] meeting_phase \in {"critic_evaluation_required",
                            "mandatory_critic_evaluation"} ->
           "EvaluationRequired"
      [] meeting_phase \in {"critic_evaluation_failed",
                            "critic_evaluation_importance"} ->
           "EvaluationBlocked"
      [] meeting_phase = "critic_evaluation_passed" -> "EvaluationPassed"
      [] meeting_phase \in {"voting_phase", "vote_justification"} -> "Voting"
      [] meeting_phase = "result_announcement" -> "Resolved"
      [] meeting_phase = "quorum_failure" -> "QuorumFailed"
      [] meeting_phase = "closing" -> "Closing"
      [] OTHER -> "Unknown"

\* the phases of a transcript in the order they were entered: an entry
\* enters a phase when the entry before it belongs to another one
PhaseSequence(tr) ==
    LET entering == {i \in DOMAIN tr :
                       i = 1 \/ PhaseOf(tr[i].phase) # PhaseOf(tr[i - 1].phase)}
        nth(k) == CHOOSE i \in entering :
                     Cardinality({j \in entering : j < i}) = k - 1
    IN  [k \in 1..Cardinality(entering) |-> PhaseOf(tr[nth(k)].phase)]

CommonPhases ==
    <<"Opening", "Brainstorming", "Discussion", "EvaluationRequired">>

PhaseOrders ==
    {CommonPhases \o <<"EvaluationBlocked", "Closing">>,
     CommonPhases \o <<"EvaluationPassed", "Voting", "Resolved", "Closing">>,
     CommonPhases \o <<"EvaluationPassed", "Voting", "QuorumFailed",
                       "Closing">>}

\* C15: the phases of a finished run are Opening, Brainstorming, Discussion,
\* EvaluationRequired, then EvaluationBlocked or EvaluationPassed, Voting and
\* Resolved or QuorumFailed, then Closing, each entered once.
C15_PhaseOrder ==
    pc = "done" => PhaseSequence(transcript) \in PhaseOrders

\* C16: the decision of a run is built from the vote map that was collected
\* in the run's vote, one vote per voting agent.
C16_DecisionFromTheVote ==
    (pc = "done" /\ result.decisions # <<>>) =>
        /\ Len(votes) = Cardinality(VotingRoles)
        /\ result.decisions[1].votes = votes

EntriesOf(tr, phases, agent_id) ==
    {i \in DOMAIN tr : tr[i].phase \in phases /\ tr[i].agent = agent_id}

\* C17: once the critic has been heard, the transcript holds one entry of
\* every agent of the roster from the brainstorming, one from the
\* discussion, and exactly one entry of the evaluation, by the critic.
C17_EntryPerParticipant ==
    pc \in {"gate", "done"} =>
        /\ \A a \in Roles :
              /\ Cardinality(EntriesOf(transcript, {"brainstorming"}, a)) = 1
              /\ Cardinality(EntriesOf(transcript,
                     {"detailed_discussion", "final_selection"}, a)) = 1
        /\ \A a \in Roles :
              Cardinality(EntriesOf(transcript,
                     {"mandatory_critic_evaluation"}, a))
                 = IF a = "critic" THEN 1 ELSE 0

\* C18: the action items of a decision are the checklist of its outcome:
\* seven items when approved, three when rejected, two when the quorum
\* failed; and the action items of the result are those of its decisions,
\* in order.
C18_ActionItemsByOutcome ==
    (pc = "done" /\ result.decisions # <<>>) =>
        LET decision == result.decisions[1]
        IN  /\ decision.outcome \in {"approved", "rejected", "failed_quorum"}
            /\ decision.outcome = "approved" =>
                 decision.action_items =
                    <<"create_repository", "write_specification",
                      "design_database", "build_prototype", "build_interface",
                      "build_api", "write_tests">>
            /\ decision.outcome = "rejected" =>
                 decision.action_items =
                    <<"review_rejection", "analyse_feedback",
                      "reassess_feasibility">>
            /\ decision.outcome = "failed_quorum" =>
                 decision.action_items =
                    <<"reschedule_vote", "ensure_attendance">>
            /\ Len(result.decisions) = 1
            /\ result.action_items = decision.action_items

\* an approved decision with its seven action items
C18_Witness ==
    /\ pc = "done"
    /\ result.decisions # <<>>
    /\ result.decisions[1].outcome = "approved"
    /\ Len(result.action_items) = 7

\* C19: every decision holds the vote map of the vote it records, one vote
\* for each voting agent, and a reference to the critic evaluation that
\* opened the vote.
C19_DecisionEmbedsVotesAndGate ==
    \A i \in DOMAIN result.decisions :
        /\ {result.decisions[i].votes[j].agent :
               j \in DOMAIN result.decisions[i].votes} = VotingRoles
        /\ "gate_evaluation" \in DOMAIN result.decisions[i]

\* C24: every run_meeting call, also one that follows other meetings of
\* the same orchestrator, returns success = true with its decisions.
C24_EveryRunSucceeds ==
    pc = "done" => (result.success /\ result.error = "none")

\* C27: in a run that reached the vote, the decision returned has the
\* outcome that was announced in the transcript and the vote map whose
\* justifications were appended to it.
C27_DecisionMatchesTranscript ==
    (pc = "done" /\ tally # NoTally) =>
        \A i \in DOMAIN result.decisions :
            /\ result.decisions[i].outcome = tally.outcome
            /\ result.decisions[i].votes = votes

(***************************************************************************)
(* Content generation for the critic's evaluation: the one contribution    *)
(* whose text decides where the meeting goes.                              *)
(***************************************************************************)

\* how the one requests.post of _generate_ai_response can end: an answer,
\* no API key, a status other than 200, a timeout, another request error,
\* an answer without the expected fields
AiOutcomes ==
    {"ok", "no_key", "bad_status", "timeout", "request_failed", "bad_payload"}

\* the critic's three "contribution" templates, as the gate reads them
CriticTemplates ==
    {TextOf(67, 11, 3, 0, 0, FALSE, TRUE, TRUE),
     TextOf(52, 8, 1, 0, 0, FALSE, FALSE, TRUE),
     TextOf(44, 7, 1, 0, 0, FALSE, FALSE, FALSE)}

\* SimpleAgent._generate_ai_response for the critic's evaluation
GenerateAiResponse ==
    /\ pc = "critic_evaluation"
    /\ \E outcome \in AiOutcomes :
         /\ generation' = [attempts |-> generation.attempts + 1,
                           outcome |-> outcome, fallback |-> FALSE]
         /\ IF outcome = "ok"
            THEN /\ \E text \in CriticTexts : evaluation' = text
                 /\ pc' = "generated"
            ELSE /\ evaluation' = evaluation
                 /\ pc' = "ai_failed"
    /\ UNCHANGED <<config, agents, reputation, history, votes, tally,
                   transcript, proposal, result,
                   now, failures, stored, patterns, board, returned>>

UseTemplate_raising ==
    /\ pc = "ai_failed"
    /\ generation' = [generation EXCEPT !.fallback = TRUE]
    /\ result' = [success |-> FALSE, decisions |-> <<>>,
                  action_items |-> <<>>, error |-> generation.outcome]
    /\ pc' = "done"
    /\ UNCHANGED <<config, agents, reputation, history, votes, tally,
                   transcript, evaluation, proposal,
                   now, failures, stored, patterns, board, returned>>

\* the except branch of SimpleAgent.generate_response: a template at random
UseTemplate ==
    /\ pc = "ai_failed"
    /\ \E text \in CriticTemplates : evaluation' = text
    /\ generation' = [generation EXCEPT !.fallback = TRUE]
    /\ pc' = "generated"
    /\ UNCHANGED <<config, agents, reputation, history, votes, tally,
                   transcript, proposal, result,
                   now, failures, stored, patterns, board, returned>>

\* the rest of _create_agent_message and the append of _simulate_meeting
AppendEvaluation ==
    /\ pc = "generated"
    /\ LET entries ==
             <<create_agent_message("critic", "mandatory_critic_evaluation")>>
       IN  /\ transcript' = transcript \o entries
           /\ history' = AddMessages(history, entries)
    /\ pc' = "gate"
    /\ UNCHANGED <<config, agents, reputation, votes, tally, evaluation,
                   proposal, result, generation,
                   now, failures, stored, patterns, board, returned>>

\* the steps of a run that has been started, but for the two that tally
ContentSteps ==
    \/ SelectProposal
    \/ GenerateAiResponse
    \/ UseTemplate
    \/ AppendEvaluation
    \/ GateBlocked
    \/ GatePassed
    \/ CastVotes
    \/ CloseMeeting

\* the steps of a run that has been started
RunSteps ==
    \/ ContentSteps
    \/ AnnounceResult
    \/ ExtractDecisions

\* WF_vars(AnnounceResult \/ ExtractDecisions) with ENABLED written out:
\* all conjuncts of the two steps but the first assign, so each is enabled
\* exactly where the run is at it, and taking it leaves that place
TallyReturns == []<>(pc \notin {"tally", "extract"})

FallbackNext ==
    \/ OpenMeeting
    \/ RunSteps

\* run_meeting runs to its return once it is called: no statement of it
\* waits for anything but the one request, which ends by its timeout
SpecFallback ==
    /\ OrchestratorInit
    /\ [][FallbackNext]_vars
    /\ WF_vars(ContentSteps)
    /\ TallyReturns

GenerationFailed == generation.outcome \notin {"none", "ok"}

\* C20: the language model is asked at most once for a contribution; when
\* that attempt fails, a template takes the place of its answer, the run
\* is not reported as failed, and the run goes on to its end.
C20_FallbackKeepsGoing ==
    /\ [](generation.attempts <= 1)
    /\ []((GenerationFailed /\ pc # "ai_failed") =>
             (generation.fallback /\ evaluation \in CriticTemplates))
    /\ []((GenerationFailed /\ pc = "done") => result.success)
    /\ (pc = "ai_failed") ~> (pc = "done" /\ result.success)

\* a run that ended well after a timeout of the language model
C20_Witness ==
    /\ pc = "done"
    /\ generation.outcome = "timeout"
    /\ generation.fallback
    /\ result.success

(***************************************************************************)
(* The failure store of MemorySystem: one file memory/failures/<id>.json   *)
(* per entry, where the id is the second at which the entry was made.      *)
(***************************************************************************)
MaxClock == 1

MaxStored == 3

\* failure_data arguments
FailureData == {"failure_a", "failure_b"}

\* a second passes
Tick ==
    /\ now < MaxClock
    /\ now' = now + 1
    /\ UNCHANGED <<config, agents, reputation, history, votes, tally, pc,
                   transcript, evaluation, proposal, result, generation,
                   failures, stored, patterns, board, returned>>

\* MemorySystem.store_failure: the entry failure_<now>.json is written, then
\* the index; either write can raise, and then False is returned.  stored
\* holds the arguments of the calls that returned True.
StoreFailure ==
    /\ Len(stored) < MaxStored
    /\ \E failure_data \in FailureData,
          raised \in {"nothing", "store_entry", "save_memory_index"} :
         /\ failures' = IF raised = "store_entry" THEN failures
                         ELSE [id \in DOMAIN failures \cup {now} |->
                                 IF id = now THEN failure_data
                                 ELSE failures[id]]
         /\ stored' = IF raised = "nothing" THEN Append(stored, failure_data)
                       ELSE stored
         /\ returned' = [value |-> raised = "nothing"]
    /\ pc' = "stored"
    /\ UNCHANGED <<config, agents, reputation, history, votes, tally,
                   transcript, evaluation, proposal, result, generation,
                   now, patterns, board>>

\* get_failure_patterns of a MemorySystem made anew: the content of every
\* file of memory/failures
GetFailurePatterns ==
    /\ patterns' = [id \in DOMAIN failures |-> failures[id]]
    /\ pc' = "retrieved"
    /\ UNCHANGED <<config, agents, reputation, history, votes, tally,
                   transcript, evaluation, proposal, result, generation,
                   now, failures, stored, board, returned>>

FilesInit ==
    /\ config = DefaultConfig
    /\ agents = <<>>
    /\ reputation = InitialReputation
    /\ history = EmptyHistory
    /\ votes = <<>>
    /\ tally = NoTally
    /\ pc = "new"
    /\ transcript = <<>>
    /\ evaluation = <<>>
    /\ proposal = {}
    /\ result = NoResult
    /\ generation = NoGeneration
    /\ StorageInit

MemoryNext ==
    \/ Tick
    \/ StoreFailure
    \/ GetFailurePatterns

SpecMemory == FilesInit /\ [][MemoryNext]_vars

\* C26: what get_failure_patterns returns after a restart is the failures
\* whose store_failure call returned True: as many patterns as such calls,
\* each stored failure among them as often as it was stored.
C26_StoredFailuresKept ==
    pc = "retrieved" =>
        /\ Cardinality(DOMAIN patterns) = Len(stored)
        /\ \A failure_data \in FailureData :
              Cardinality({id \in DOMAIN patterns :
                             patterns[id] = failure_data}) =
              Cardinality({i \in DOMAIN stored : stored[i] = failure_data})

(***************************************************************************)
(* The task board board/tasks.json: three columns of tasks.  A task is     *)
(* known by its id, the second of its making and its number in the update  *)
(* that made it; its title is an action item, that is a text and, in the   *)
(* first item of a decision, the title of the project.  from_outcome is    *)
(* the outcome of the decision the task was made from.                     *)
(***************************************************************************)
BoardColumns == <<"todo", "in_progress", "done">>

\* every task of the board, column after column
BoardTasks(b) == b.todo \o b.in_progress \o b.done

\* the decisions run_meeting hands to _update_indexes: none, or the one of
\* _extract_decisions with the action items of its outcome for its project
BoardDecisions ==
    {<<>>} \cup
    {<<[id |-> "decision_001", title |-> project_title, outcome |-> outcome,
        action_items |->
          [i \in DOMAIN generate_action_items(outcome) |->
             [text |-> generate_action_items(outcome)[i],
              project |-> IF i = 1 THEN project_title ELSE "any"]]]>> :
       project_title \in {"project_a", "project_b"},
       outcome \in {"approved", "rejected", "failed_quorum"}}

\* the loop over the action items that adds every item, on the board or not
RECURSIVE AddTasks_all(_, _, _, _, _)
AddTasks_all(items, titles, added, outcome, second) ==
    IF items = <<>> THEN added
    ELSE AddTasks_all(Tail(items), titles \cup {Head(items)},
                      Append(added,
                             [id |-> <<second, Len(added) + 1>>,
                              title |-> Head(items), from_outcome |-> outcome,
                              status |-> "todo", progress |-> 0,
                              updated |-> FALSE]),
                      outcome, second)

\* _update_board_tasks: the loop over the action items of a decision;
\* titles is existing_task_titles, added the tasks appended to todo so far
RECURSIVE AddTasks(_, _, _, _, _)
AddTasks(items, titles, added, outcome, second) ==
    IF items = <<>> THEN added
    ELSE IF Head(items) \in titles
    THEN AddTasks(Tail(items), titles, added, outcome, second)
    ELSE AddTasks(Tail(items), titles \cup {Head(items)},
                  Append(added,
                         [id |-> <<second, Len(added) + 1>>,
                          title |-> Head(items), from_outcome |-> outcome,
                          status |-> "todo", progress |-> 0,
                          updated |-> FALSE]),
                  outcome, second)

\* MeetingOrchestrator._update_board_tasks
UpdateBoardTasks ==
    /\ \E decisions \in BoardDecisions :
         LET existing_task_titles ==
                 {BoardTasks(board)[i].title : i \in DOMAIN BoardTasks(board)}
             added ==
                 IF decisions = <<>> THEN <<>>
                 ELSE IF decisions[1].outcome \in {"rejected", "failed_quorum"}
                 THEN <<>>
                 ELSE AddTasks(decisions[1].action_items, existing_task_titles,
                               <<>>, decisions[1].outcome, now)
         IN  /\ board' = [board EXCEPT !.exists = TRUE,
                                        !.todo = board.todo \o added]
             /\ returned' = [added |-> Len(added)]
    /\ UNCHANGED <<config, agents, reputation, history, votes, tally, pc,
                   transcript, evaluation, proposal, result, generation,
                   now, failures, stored, patterns>>

\* MeetingOrchestrator.update_task_status: the first task with the id, by
\* column and place, is taken out and appended to the column new_status.
\* The ids asked for are those of the first task of an update of any second,
\* on the board or not.
UpdateTaskStatus ==
    /\ \E task_id \in {<<second, 1>> : second \in 0..MaxClock},
          new_status \in {"todo", "in_progress", "done", "metadata",
                          "archived"} :
         LET holds(c) == \E i \in DOMAIN board[BoardColumns[c]] :
                            board[BoardColumns[c]][i].id = task_id
             found == board.exists /\ \E c \in 1..3 : holds(c)
             source == BoardColumns[CHOOSE c \in 1..3 :
                          holds(c) /\ \A d \in 1..(c - 1) : ~holds(d)]
             place == CHOOSE i \in DOMAIN board[source] :
                         /\ board[source][i].id = task_id
                         /\ \A j \in 1..(i - 1) :
                               board[source][j].id # task_id
             task_to_move ==
                 [board[source][place] EXCEPT
                    !.status = new_status,
                    !.updated = TRUE,
                    !.progress = IF new_status = "todo" THEN 0
                                 ELSE IF new_status = "in_progress" THEN 50
                                 ELSE IF new_status = "done" THEN 100
                                 ELSE @]
             popped == [board EXCEPT ![source] =
                          SubSeq(@, 1, place - 1) \o
                          SubSeq(@, place + 1, Len(@))]
         IN  IF found /\ new_status \in {"todo", "in_progress", "done"}
             THEN /\ board' = [popped EXCEPT ![new_status] =
                                  Append(@, task_to_move)]
                  /\ returned' = [value |-> TRUE, task_id |-> task_id,
                                   new_status |-> new_status]
             ELSE /\ board' = board
                  /\ returned' = [value |-> FALSE]
    /\ UNCHANGED <<config, agents, reputation, history, votes, tally, pc,
                   transcript, evaluation, proposal, result, generation,
                   now, failures, stored, patterns>>

BoardNext ==
    \/ Tick
    \/ UpdateBoardTasks
    \/ UpdateTaskStatus

SpecBoard == FilesInit /\ [][BoardNext]_vars

\* C29: whatever updates came before, no task of the board was made from a
\* decision that was rejected or failed its quorum, no two tasks of the
\* board have the same title, and an update adds no task whose title was on
\* the board before it.
C29_BoardTasksOfApprovals ==
    /\ \A i \in DOMAIN BoardTasks(board) :
          BoardTasks(board)[i].from_outcome \notin {"rejected", "failed_quorum"}
    /\ \A i, j \in DOMAIN BoardTasks(board) :
          BoardTasks(board)[i].title = BoardTasks(board)[j].title => i = j

\* a board on which a second approved project found the six tasks it has in
\* common with the first
C29_Witness ==
    /\ Len(board.todo) + Len(board.in_progress) + Len(board.done) = 8
    /\ returned = [added |-> 1]

====
